---- MODULE Spec2Model ----
(***************************************************************************)
(* A model of the experimental async I/O library (src/http/io.hpp,         *)
(* src/http/io.cpp) and of its demonstration client (src/http/main.cpp).   *)
(*                                                                         *)
(* Two programs are modelled over one set of variables:                    *)
(*   Spec     the demonstration program: main() constructs one http_op,    *)
(*            calls op.step() and drives svc.run_many() until it returns   *)
(*            false or an exception leaves the loop;                       *)
(*   SpecSvc  a host that owns a plain socket_context and a plain          *)
(*            connect_context, issues the five socket primitives on them,  *)
(*            calls service::shutdown() and drains with run()/run_many().  *)
(*                                                                         *)
(* The operating system (the completion port, the sockets, the resolver)   *)
(* is the environment: every answer it can give is drawn with \E.          *)
(* Control is a call stack of frames; the frame at the head is running.    *)
(* One thread drives the service; the resolver's completion callback runs  *)
(* on a thread of its own, one statement at a time.  Not modelled: a        *)
(* failing wait in run() and run_many(), a failing                         *)
(* PostQueuedCompletionStatus, the destructors.                            *)
(* The variables iss and gh are history: the program's actions do not     *)
(* read them; only the host reads them, to use each of its contexts once   *)
(* and to bound its calls of shutdown().                                   *)
(***************************************************************************)
EXTENDS Integers, Sequences, FiniteSets, TLC

\* ------------------------------------------------------------- bounds
MaxCand == 2      \* longest candidate list the resolver produces
MaxErr == 1       \* error codes are 1..MaxErr
MaxBytes == 1     \* length of the request buffer; byte counts are 0..MaxBytes
MaxFlags == 1     \* receive flags are 0..MaxFlags
MaxShutdown == 2  \* calls of service::shutdown() by the host

\* ---------------------------------------------------- program constants
KEY_RUN == 0
KEY_SHUTDOWN == 1
BatchSize == 16
ERROR_SUCCESS == 0
\* the value of a member no constructor initialises; a read of it may give anything
Indet == -1
\* socket::socket sets FILE_SKIP_COMPLETION_PORT_ON_SUCCESS on every socket
SkipCompletionPortOnSuccess == TRUE

ErrCodes == 1..MaxErr
Bytes == 0..MaxBytes
Flags == 0..MaxFlags
OutcomeFields == {"m_error", "m_transferred", "m_flags"}

MainCtx == {"m_connect_ctx", "m_ctx", "resolve_ctx", "connect_ctx"}
HostCtx == {"hs", "hc"}
CtxIds == MainCtx \cup HostCtx

\* the dynamic type of each context object, which selects its completion_func
CtxClass(c) ==
  CASE c = "m_connect_ctx" -> "async_context<resolve_and_connect_context>"
    [] c = "m_ctx"         -> "async_context<socket_context>"
    [] c = "resolve_ctx"   -> "async_context<resolve_context>"
    [] c = "connect_ctx"   -> "async_context<connect_context>"
    [] c = "hs"            -> "socket_context"
    [] c = "hc"            -> "connect_context"

VARIABLES
  queue,   \* the completion port: entries [key, ov] in arrival order
  ctx,     \* per context: m_error, m_transferred, m_flags, m_sock
  os,      \* per context: the overlapped operation the OS holds for it
  socks,   \* the OS socket table: open handles, next handle, fixed-up handles
  stack,   \* call stack, head = running frame [fn, pc, c, ret]
  rm,      \* locals of the running run()/run_many(): entries, i, keep_running
  rslv,    \* resolve_context: m_rawres, m_result; the resolver thread: cb, error, list
  rc,      \* resolve_and_connect_context: state, sync, iter
  op,      \* http_op: m_state, m_sendleft, m_sock, received
  iss,     \* history, per context: what the last primitive issued on it did
  gh       \* history of the run: counters and logs the properties read

vars == <<queue, ctx, os, socks, stack, rm, rslv, rc, op, iss, gh>>

\* ------------------------------------------------------------ helpers
Min(a, b) == IF a < b THEN a ELSE b

\* a read of a member: any value of its domain when it was never written
Rd(x, dom) == IF x = Indet THEN dom ELSE {x}

\* a record with the fields of w overwritten
Upd(old, w) == [f \in DOMAIN old |-> IF f \in DOMAIN w THEN w[f] ELSE old[f]]

NoWrite == [f \in {} |-> 0]

Frame(fn, pc, c) == [fn |-> fn, pc |-> pc, c |-> c, ret |-> FALSE]
Top == Head(stack)
Running(fn, pc) == stack # <<>> /\ Top.fn = fn /\ Top.pc = pc
\* the stack with the running frame moved to pc
Goto(pc) == <<[Top EXCEPT !.pc = pc]>> \o Tail(stack)
\* an exception: no frame but main()'s has a handler; the harness host catches too
Unwind ==
  LET base == stack[Len(stack)] IN
  <<[base EXCEPT !.pc = IF base.fn = "main" THEN "caught" ELSE "idle"]>>

IdleOp == [st |-> "idle", prim |-> "none", cand |-> 0, len |-> 0, err |-> 0, bytes |-> 0, flags |-> 0]
NoIssue == [ret |-> "none", wr |-> {}, hooks |-> 0, hookwr |-> {}, busy |-> FALSE]

\* ------------------------------------------------ the socket primitives
\* What the OS answers to a primitive given len bytes of buffer on a socket
\* handle that is valid or not: the extension lookup fails (noext), the
\* operation completes at once (ok), is accepted and pending, or fails at once.
\* An invalid handle fails at the first OS call made on it.
\* touch: on an immediate failure the OS may or may not store through the
\* byte-count out-parameter the wrapper passed.
OsOutcomes(prim, len, valid) ==
  LET lookup == prim \in {"connect_and_send", "accept_and_receive", "disconnect"}
      outpar == prim # "disconnect"
  IN  (IF lookup
         THEN {[k |-> "noext", err |-> e, bytes |-> 0, flags |-> 0, touch |-> FALSE] : e \in ErrCodes}
         ELSE {})
      \cup (IF valid
              THEN {[k |-> "ok", err |-> ERROR_SUCCESS, bytes |-> b, flags |-> f, touch |-> FALSE] :
                      b \in (IF outpar THEN 0..len ELSE {0}),
                      f \in (IF prim = "receive" THEN Flags ELSE {0})}
                   \cup {[k |-> "pending", err |-> ERROR_SUCCESS, bytes |-> 0, flags |-> 0, touch |-> FALSE]}
              ELSE {})
      \cup (IF valid \/ ~lookup
              THEN {[k |-> "fail", err |-> e, bytes |-> 0, flags |-> 0, touch |-> t] :
                      e \in ErrCodes, t \in (IF outpar THEN BOOLEAN ELSE {FALSE})}
              ELSE {})

\* Each primitive: the members of the context it has written when it returns.
socket_accept_and_receive(s, r) ==
  CASE r.k = "noext"   -> [m_error |-> r.err, m_transferred |-> 0, m_flags |-> 0]
    [] r.k = "ok"      -> [m_sock |-> s, m_transferred |-> r.bytes, m_error |-> ERROR_SUCCESS, m_flags |-> 0]
    [] r.k = "pending" -> [m_sock |-> s]
    [] r.k = "fail"    -> IF r.touch
                            THEN [m_sock |-> s, m_transferred |-> r.bytes, m_error |-> r.err, m_flags |-> 0]
                            ELSE [m_sock |-> s, m_error |-> r.err, m_flags |-> 0]

socket_connect_and_send(s, r) ==
  CASE r.k = "noext"   -> [m_error |-> r.err, m_transferred |-> 0, m_flags |-> 0]
    [] r.k = "ok"      -> [m_sock |-> s, m_transferred |-> r.bytes, m_error |-> ERROR_SUCCESS, m_flags |-> 0]
    [] r.k = "pending" -> [m_sock |-> s]
    [] r.k = "fail"    -> IF r.touch
                            THEN [m_sock |-> s, m_transferred |-> r.bytes, m_error |-> r.err, m_flags |-> 0]
                            ELSE [m_sock |-> s, m_error |-> r.err, m_flags |-> 0]

socket_send(s, r) ==
  CASE r.k = "ok"      -> [m_sock |-> s, m_transferred |-> r.bytes, m_error |-> ERROR_SUCCESS, m_flags |-> 0]
    [] r.k = "pending" -> [m_sock |-> s]
    [] r.k = "fail"    -> IF r.touch
                            THEN [m_sock |-> s, m_transferred |-> r.bytes, m_error |-> r.err, m_flags |-> 0]
                            ELSE [m_sock |-> s, m_error |-> r.err, m_flags |-> 0]

socket_receive(s, r) ==
  CASE r.k = "ok"      -> [m_sock |-> s, m_transferred |-> r.bytes, m_error |-> ERROR_SUCCESS, m_flags |-> r.flags]
    [] r.k = "pending" -> [m_sock |-> s]
    [] r.k = "fail"    -> IF r.touch
                            THEN [m_sock |-> s, m_transferred |-> r.bytes, m_error |-> r.err, m_flags |-> 0]
                            ELSE [m_sock |-> s, m_error |-> r.err, m_flags |-> 0]

socket_disconnect(s, r) ==
  CASE r.k = "noext"   -> [m_error |-> r.err, m_transferred |-> 0, m_flags |-> 0]
    [] r.k = "ok"      -> [m_sock |-> s, m_error |-> ERROR_SUCCESS, m_flags |-> 0]
    [] r.k = "pending" -> [m_sock |-> s]
    [] r.k = "fail"    -> [m_sock |-> s, m_error |-> r.err, m_flags |-> 0]

PrimWrites(prim, s, r) ==
  CASE prim = "accept_and_receive" -> socket_accept_and_receive(s, r)
    [] prim = "connect_and_send"   -> socket_connect_and_send(s, r)
    [] prim = "send"               -> socket_send(s, r)
    [] prim = "receive"            -> socket_receive(s, r)
    [] prim = "disconnect"         -> socket_disconnect(s, r)

\* a variant in which a pending operation is reported as completed
PrimReturns_ignores_pending(r) == TRUE

\* The return value of every primitive: false exactly for ERROR_IO_PENDING.
PrimReturns(r) == r.k # "pending"

\* The OS side of an issue: a pending operation is held until it completes; an
\* operation that succeeded at once queues a packet only on a socket without
\* FILE_SKIP_COMPLETION_PORT_ON_SUCCESS.
OsAfterIssue(c, prim, cand, len, r) ==
  CASE r.k = "pending" ->
         [os EXCEPT ![c] = [IdleOp EXCEPT !.st = "pending", !.prim = prim, !.cand = cand, !.len = len]]
    [] r.k = "ok" /\ ~SkipCompletionPortOnSuccess ->
         [os EXCEPT ![c] = [IdleOp EXCEPT !.st = "queued", !.prim = prim, !.cand = cand, !.len = len,
                                          !.bytes = r.bytes, !.flags = r.flags]]
    [] OTHER -> os

QueueAfterIssue(c, r) ==
  IF r.k = "ok" /\ ~SkipCompletionPortOnSuccess
    THEN Append(queue, [key |-> KEY_RUN, ov |-> c])
    ELSE queue

\* Primitive prim issued on context c for socket s (candidate cand) with len
\* bytes of buffer, answered r.
IssuePrimitive(c, prim, s, cand, len, r) ==
  /\ ctx' = [ctx EXCEPT ![c] = Upd(@, PrimWrites(prim, s, r))]
  /\ os' = OsAfterIssue(c, prim, cand, len, r)
  /\ queue' = QueueAfterIssue(c, r)
  /\ iss' = [iss EXCEPT ![c] = [ret |-> IF PrimReturns(r) THEN "true" ELSE "false",
                                wr |-> DOMAIN PrimWrites(prim, s, r) \cap OutcomeFields,
                                hooks |-> 0, hookwr |-> {}, busy |-> os[c].st # "idle"]]

\* ------------------------------------------------ the operating system
\* A pending overlapped socket operation completes: the result is kept in the
\* OVERLAPPED and a packet with the socket's key (KEY_RUN) is queued.  A connect
\* to a candidate succeeds or fails as the candidate is reachable or not.
CompletionResults(o) ==
  LET list == rslv.m_result
      up == o.prim # "connect_and_send" \/ o.cand = 0 \/ list[o.cand] = "up"
      down == o.prim # "connect_and_send" \/ o.cand = 0 \/ list[o.cand] = "down"
  IN  {[err |-> ERROR_SUCCESS, bytes |-> b, flags |-> f] :
         b \in (IF up /\ o.prim # "disconnect" THEN 0..o.len ELSE {}),
         f \in (IF o.prim = "receive" THEN Flags ELSE {0})}
      \cup {[err |-> ERROR_SUCCESS, bytes |-> 0, flags |-> 0] :
         x \in (IF up /\ o.prim = "disconnect" THEN {0} ELSE {})}
      \cup {[err |-> e, bytes |-> b, flags |-> 0] :
         e \in (IF down THEN ErrCodes ELSE {}),
         b \in (IF o.prim = "connect_and_send" THEN 0..o.len ELSE {0})}

OsComplete(c) ==
  /\ os[c].st = "pending"
  /\ os[c].prim # "resolve"
  /\ \E res \in CompletionResults(os[c]) :
       /\ os' = [os EXCEPT ![c].st = "queued", ![c].err = res.err,
                           ![c].bytes = res.bytes, ![c].flags = res.flags]
       /\ gh' = IF os[c].prim = "connect_and_send" /\ c = "connect_ctx"
                  THEN [gh EXCEPT !.conn = res] ELSE gh
  /\ queue' = Append(queue, [key |-> KEY_RUN, ov |-> c])
  /\ UNCHANGED <<ctx, socks, stack, rm, rslv, rc, op, iss>>

\* ------------------------------------------------ completion functions
\* socket_context::completion_func: WSAGetOverlappedResult stores the result
\* the OS kept for the operation into the three outcome members.
socket_context_completion_func(c) ==
  Upd(ctx[c], [m_error |-> os[c].err, m_transferred |-> os[c].bytes, m_flags |-> os[c].flags])

\* connect_context::completion_func, after the base call: with no error the
\* socket gets SO_UPDATE_CONNECT_CONTEXT, and a failing setsockopt is thrown.
connect_context_fixup_throws(c, fix) == os[c].err = ERROR_SUCCESS /\ ~fix

IsSocketBased(c) ==
  CtxClass(c) \in {"socket_context", "connect_context",
                   "async_context<socket_context>", "async_context<connect_context>"}
IsConnect(c) == CtxClass(c) \in {"connect_context", "async_context<connect_context>"}
IsBound(c) == c \in MainCtx

\* async_context<Base>::completion_func resumes m_op: the frame of the owner's
\* step(), entered through its switch at the stored resume tag.
OwnerFrame(c) ==
  IF c \in {"m_connect_ctx", "m_ctx"}
    THEN Frame("http_step", op.m_state, c)
    ELSE Frame("rc_step", rc.state, c)

\* whether async_context<Base>::completion_func reaches m_op->step()
async_context_resumes(c, fix) == ~(IsConnect(c) /\ connect_context_fixup_throws(c, fix))

HookOutcome(c, fix) ==
  IF ~IsSocketBased(c) THEN "none"
  ELSE IF os[c].err # ERROR_SUCCESS THEN "error"
  ELSE IF IsConnect(c) /\ ~fix THEN "fixup_failed"
  ELSE "success"

\* a receive that completed with no error and no bytes: the peer closed
EndOfStream(prim, err, bytes) == prim = "receive" /\ err = ERROR_SUCCESS /\ bytes = 0

\* The virtual call completion_func() on context c, made by a frame that goes
\* on as stk; fix: whether the fixup setsockopt succeeds; g: the history so far.
completion_func(c, stk, fix, g) ==
  IF c = "null"
    THEN \* no context behind the entry: nothing the model can run
         /\ gh' = [g EXCEPT !.nullHooks = Min(@ + 1, 2)]
         /\ stack' = stk
         /\ UNCHANGED <<ctx, os, iss, socks>>
    ELSE
      LET throws == IsConnect(c) /\ connect_context_fixup_throws(c, fix)
          resumes == IsBound(c) /\ async_context_resumes(c, fix)
      IN
      /\ ctx' = IF IsSocketBased(c)
                  THEN [ctx EXCEPT ![c] = socket_context_completion_func(c)]
                  ELSE ctx
      /\ os' = IF c = "m_connect_ctx" THEN os ELSE [os EXCEPT ![c] = IdleOp]
      /\ iss' = [iss EXCEPT ![c].hooks = Min(@ + 1, 2),
                            ![c].hookwr = IF IsSocketBased(c) THEN OutcomeFields ELSE {}]
      /\ socks' = IF IsConnect(c) /\ os[c].err = ERROR_SUCCESS /\ fix
                    THEN [socks EXCEPT !.updated = @ \cup {ctx[c].m_sock}]
                    ELSE socks
      /\ stack' = IF resumes THEN <<OwnerFrame(c)>> \o stk
                  ELSE IF throws THEN <<[stk[Len(stk)] EXCEPT
                                          !.pc = IF stk[Len(stk)].fn = "main" THEN "caught" ELSE "idle"]>>
                  ELSE stk
      /\ gh' = [g EXCEPT
                  !.eos = IF c = "m_ctx" /\ EndOfStream(os[c].prim, os[c].err, os[c].bytes)
                            THEN "hook" ELSE @,
                  !.call.ret = IF throws THEN "raised" ELSE @,
                  !.raised = IF throws THEN "fixup" ELSE @,
                  !.hk = IF IsBound(c)
                           THEN [c |-> c, base |-> HookOutcome(c, fix),
                                 steps |-> IF resumes THEN 1 ELSE 0,
                                 tag |-> OwnerFrame(c).pc, susp |-> g.susp[c],
                                 wrote |-> IF IsSocketBased(c) THEN OutcomeFields ELSE {},
                                 fixed |-> IsConnect(c) /\ os[c].err = ERROR_SUCCESS /\ fix]
                           ELSE @]

\* -------------------------------------------------------- the service
ShutdownEntry == [key |-> KEY_SHUTDOWN, ov |-> "null"]
NoCall == [fn |-> "none", batch |-> <<>>, disp |-> <<>>, ret |-> "none"]
ShutdownsIn(batch) == Cardinality({i \in DOMAIN batch : batch[i].key = KEY_SHUTDOWN})

\* return from the running frame with value v
Return(v) ==
  LET rest == Tail(stack) IN <<[Head(rest) EXCEPT !.ret = v]>> \o Tail(rest)

\* history: a drain call returned v
CallReturned(g, v) ==
  [g EXCEPT !.call.ret = IF v THEN "true" ELSE "false",
            !.falseRets = IF v THEN @ ELSE Min(@ + 1, MaxShutdown + 1)]

\* service::shutdown: PostQueuedCompletionStatus(m_iocp, 0, KEY_SHUTDOWN, nullptr)
service_shutdown == Append(queue, ShutdownEntry)

\* service::run, from the wait to the dispatch: one entry is dequeued; the
\* shutdown key returns false, any other entry has its completion_func called.
\* (The wait itself failing, which throws win32_error, is not modelled.)
run_returns_false(e) == e.key = KEY_SHUTDOWN

service_run ==
  /\ Running("run", "wait")
  /\ queue # <<>>
  /\ LET e == Head(queue)
         g == [gh EXCEPT !.call = [fn |-> "run", batch |-> <<e>>, disp |-> <<>>, ret |-> "running"],
                         !.dequeued = Min(@ + ShutdownsIn(<<e>>), MaxShutdown + 1)]
     IN
     /\ queue' = Tail(queue)
     /\ IF run_returns_false(e)
          THEN /\ stack' = Return(FALSE)
               /\ gh' = CallReturned(g, FALSE)
               /\ UNCHANGED <<ctx, os, iss, socks>>
          ELSE \E fix \in BOOLEAN :
                 completion_func(e.ov, Goto("ret"), fix, [g EXCEPT !.call.disp = Append(@, e.ov)])
  /\ UNCHANGED <<rm, rslv, rc, op>>

\* service::run, line 58: return true
service_run_return ==
  /\ Running("run", "ret")
  /\ stack' = Return(TRUE)
  /\ gh' = CallReturned(gh, TRUE)
  /\ UNCHANGED <<queue, ctx, os, socks, rm, rslv, rc, op, iss>>

\* service::run_many, the wait: up to 16 entries are removed in one call.
run_many_removed == Min(BatchSize, Len(queue))

service_run_many_wait ==
  /\ Running("run_many", "wait")
  /\ queue # <<>>
  /\ LET removed == run_many_removed
         entries == SubSeq(queue, 1, removed)
     IN
     /\ queue' = SubSeq(queue, removed + 1, Len(queue))
     /\ rm' = [entries |-> entries, i |-> 1, keep_running |-> TRUE]
     /\ gh' = [gh EXCEPT !.call = [fn |-> "run_many", batch |-> entries, disp |-> <<>>, ret |-> "running"],
                         !.dequeued = Min(@ + ShutdownsIn(entries), MaxShutdown + 1)]
  /\ stack' = Goto("loop")
  /\ UNCHANGED <<ctx, os, socks, rslv, rc, op, iss>>

\* service::run_many, one turn of the for loop over the removed entries
run_many_dispatches(e) == e.key = KEY_RUN

service_run_many_iter ==
  /\ Running("run_many", "loop")
  /\ rm.i <= Len(rm.entries)
  /\ LET e == rm.entries[rm.i] IN
     IF run_many_dispatches(e)
       THEN /\ rm' = [rm EXCEPT !.i = @ + 1]
            /\ \E fix \in BOOLEAN :
                 completion_func(e.ov, stack, fix, [gh EXCEPT !.call.disp = Append(@, e.ov)])
       ELSE /\ rm' = [rm EXCEPT !.i = @ + 1, !.keep_running = FALSE]
            /\ UNCHANGED <<ctx, os, socks, stack, iss, gh>>
  /\ UNCHANGED <<queue, rslv, rc, op>>

\* service::run_many, after the loop: return keep_running
service_run_many_return ==
  /\ Running("run_many", "loop")
  /\ rm.i > Len(rm.entries)
  /\ stack' = Return(rm.keep_running)
  /\ gh' = CallReturned(gh, rm.keep_running)
  /\ UNCHANGED <<queue, ctx, os, socks, rm, rslv, rc, op, iss>>

\* ------------------------------------------------ the harness host
\* socket handles are numbered from 1; 0 stands for INVALID_SOCKET
INVALID_SOCKET == 0
\* the socket the host made with socket::socket before it issues anything
HostSocket == 1

HostPrims(c) ==
  IF CtxClass(c) = "connect_context"
    THEN {"connect_and_send"}
    ELSE {"accept_and_receive", "send", "receive", "disconnect"}

\* the host issues a primitive on a context of its own that it has not used yet
HostIssue(c) ==
  /\ Running("host", "idle")
  /\ os[c].st = "idle"
  /\ iss[c].ret = "none"
  /\ \E prim \in HostPrims(c) : \E r \in OsOutcomes(prim, MaxBytes, TRUE) :
       IssuePrimitive(c, prim, HostSocket, 0, MaxBytes, r)
  /\ UNCHANGED <<socks, stack, rm, rslv, rc, op, gh>>

HostShutdown ==
  /\ Running("host", "idle")
  /\ gh.posted < MaxShutdown
  /\ queue' = service_shutdown
  /\ gh' = [gh EXCEPT !.posted = @ + 1]
  /\ UNCHANGED <<ctx, os, socks, stack, rm, rslv, rc, op, iss>>

HostRun ==
  /\ Running("host", "idle")
  /\ stack' = <<Frame("run", "wait", "")>> \o stack
  /\ UNCHANGED <<queue, ctx, os, socks, rm, rslv, rc, op, iss, gh>>

HostRunMany ==
  /\ Running("host", "idle")
  /\ stack' = <<Frame("run_many", "wait", "")>> \o stack
  /\ UNCHANGED <<queue, ctx, os, socks, rm, rslv, rc, op, iss, gh>>

\* ------------------------------------------------------ initial state
NoCtx == [m_error |-> Indet, m_transferred |-> Indet, m_flags |-> Indet, m_sock |-> Indet]
NoHook == [c |-> "", base |-> "none", steps |-> 0, tag |-> "", susp |-> "",
           wrote |-> {}, fixed |-> FALSE]
NoResolution == [how |-> "none", err |-> ERROR_SUCCESS, list |-> <<>>]

InitCommon ==
  /\ queue = <<>>
  /\ ctx = [c \in CtxIds |-> NoCtx]
  /\ os = [c \in CtxIds |-> IdleOp]
  /\ rm = [entries |-> <<>>, i |-> 1, keep_running |-> TRUE]
  /\ rslv = [m_rawres |-> <<>>, m_result |-> <<>>, cb |-> 0, error |-> ERROR_SUCCESS, list |-> <<>>]
  /\ rc = [state |-> "on_start", sync |-> TRUE, iter |-> 0]
  /\ op = [m_state |-> "on_start", m_sendleft |-> MaxBytes, m_sock |-> INVALID_SOCKET]
  /\ iss = [c \in CtxIds |-> NoIssue]
  /\ gh = [posted |-> 0, dequeued |-> 0, falseRets |-> 0, nullHooks |-> 0,
           call |-> NoCall, raised |-> "", hk |-> NoHook,
           susp |-> [c \in MainCtx |-> ""], conn |-> [err |-> 0, bytes |-> 0, flags |-> 0],
           res |-> NoResolution, pended |-> FALSE, log |-> <<>>, final |-> 0,
           eos |-> "none", recvAfterEos |-> FALSE]

InitSvc ==
  /\ InitCommon
  /\ socks = [open |-> {HostSocket}, next |-> HostSocket + 1, updated |-> {}]
  /\ stack = <<Frame("host", "idle", "")>>

NextSvc ==
  \/ \E c \in HostCtx : HostIssue(c)
  \/ HostShutdown
  \/ HostRun
  \/ HostRunMany
  \/ service_run
  \/ service_run_return
  \/ service_run_many_wait
  \/ service_run_many_iter
  \/ service_run_many_return
  \/ \E c \in HostCtx : OsComplete(c)

SpecSvc == InitSvc /\ [][NextSvc]_vars

\* ------------------------------------------------------- name resolution
\* The lists the resolver can produce: every candidate is one address, labelled
\* by what a connect to it does ("up": it succeeds, "down": it fails).
Lists == UNION {[1..n -> {"up", "down"}] : n \in 0..MaxCand}

\* What GetAddrInfoExW answers at once: the list (ok), pending, or an error.
ResolveOutcomes ==
  {[k |-> "ok", err |-> ERROR_SUCCESS, list |-> l] : l \in Lists}
  \cup {[k |-> "pending", err |-> ERROR_SUCCESS, list |-> <<>>]}
  \cup {[k |-> "fail", err |-> e, list |-> <<>>] : e \in ErrCodes}

\* resolve_helpers::resolve: the members of the context written on return
resolve_writes(r) == IF r.k = "pending" THEN NoWrite ELSE [m_error |-> r.err]

\* resolve_helpers::resolve: the OS stores the list through &ctx.m_rawres
resolve_rawres(r) == IF r.k = "ok" THEN [rslv EXCEPT !.m_rawres = r.list] ELSE rslv

\* resolve_context::lookup_completion, lines 326-330: the list is published to
\* m_result when the lookup succeeded and gave one
lookup_completion(error, rawres) ==
  IF error = ERROR_SUCCESS /\ rawres # <<>>
    THEN [m_rawres |-> <<>>, m_result |-> rawres]
    ELSE [m_rawres |-> rawres, m_result |-> rslv.m_result]

LookupResults ==
  {[err |-> ERROR_SUCCESS, list |-> l] : l \in Lists}
  \cup {[err |-> e, list |-> <<>>] : e \in ErrCodes}

\* a variant of the callback that posts the completion before it writes
lookup_completion_posts_first == <<"post", "publish", "set_error">>

\* the statements of resolve_context::lookup_completion in program order
lookup_completion_steps == <<"publish", "set_error", "post">>

\* The resolver finishes a pending lookup on its own thread: it stores the list
\* through the pointer resolve() gave it and calls lookup_completion(error, ...).
LookupStart ==
  /\ os["resolve_ctx"].st = "pending"
  /\ rslv.cb = 0
  /\ \E res \in LookupResults :
       rslv' = [rslv EXCEPT !.m_rawres = res.list, !.cb = 1, !.error = res.err, !.list = res.list]
  /\ UNCHANGED <<queue, ctx, os, socks, stack, rm, rc, op, iss, gh>>

\* One statement of lookup_completion on the resolver's thread: publish the
\* list, set m_error, or post the context to the port with KEY_RUN.
LookupCompletion ==
  /\ rslv.cb \in DOMAIN lookup_completion_steps
  /\ LET what == lookup_completion_steps[rslv.cb]
         next == IF rslv.cb = Len(lookup_completion_steps) THEN 0 ELSE rslv.cb + 1
         pub == lookup_completion(rslv.error, rslv.m_rawres)
     IN
     /\ rslv' = IF what = "publish"
                  THEN [rslv EXCEPT !.m_rawres = pub.m_rawres, !.m_result = pub.m_result, !.cb = next]
                  ELSE [rslv EXCEPT !.cb = next]
     /\ ctx' = IF what = "set_error"
                 THEN [ctx EXCEPT !["resolve_ctx"].m_error = rslv.error]
                 ELSE ctx
     /\ os' = IF what = "post" THEN [os EXCEPT !["resolve_ctx"].st = "queued"] ELSE os
     /\ queue' = IF what = "post" THEN Append(queue, [key |-> KEY_RUN, ov |-> "resolve_ctx"]) ELSE queue
     /\ gh' = IF what = "post"
                THEN [gh EXCEPT !.res = [how |-> "async", err |-> rslv.error, list |-> rslv.list]]
                ELSE gh
  /\ UNCHANGED <<socks, stack, rm, rc, op, iss>>

\* -------------------------------- resolve_and_connect_context::step
has_error(c) == ctx[c].m_error # ERROR_SUCCESS

\* history: an exception leaves the running frames
Raise(g, what) ==
  [g EXCEPT !.raised = what, !.call.ret = IF @ = "running" THEN "raised" ELSE @]

Logged(g, evs) == [g EXCEPT !.log = @ \o evs]
Ev(ev, k) == [ev |-> ev, k |-> k]

\* case on_start: state = on_resolve; resolve(); pending: go to line 383
RC_OnStart ==
  /\ Running("rc_step", "on_start")
  /\ \E r \in ResolveOutcomes :
       /\ rc' = [rc EXCEPT !.state = "on_resolve"]
       /\ rslv' = resolve_rawres(r)
       /\ ctx' = [ctx EXCEPT !["resolve_ctx"] = Upd(@, resolve_writes(r))]
       /\ os' = IF r.k = "pending"
                  THEN [os EXCEPT !["resolve_ctx"] = [IdleOp EXCEPT !.st = "pending", !.prim = "resolve"]]
                  ELSE os
       /\ iss' = [iss EXCEPT !["resolve_ctx"] =
                    [ret |-> IF r.k = "pending" THEN "false" ELSE "true",
                     wr |-> DOMAIN resolve_writes(r) \cap OutcomeFields,
                     hooks |-> 0, hookwr |-> {}, busy |-> os["resolve_ctx"].st # "idle"]]
       /\ stack' = IF r.k = "pending" THEN Goto("resolve_pending") ELSE Goto("on_resolve")
       /\ gh' = [gh EXCEPT !.susp["resolve_ctx"] = "on_resolve",
                           !.pended = @ \/ r.k = "pending",
                           !.res = IF r.k = "pending" THEN @
                                   ELSE [how |-> "sync", err |-> r.err, list |-> r.list]]
  /\ UNCHANGED <<queue, socks, rm, op>>

\* resolve() returned false: sync = false; return
RC_ResolvePending ==
  /\ Running("rc_step", "resolve_pending")
  /\ rc' = [rc EXCEPT !.sync = FALSE]
  /\ stack' = Tail(stack)
  /\ UNCHANGED <<queue, ctx, os, socks, rm, rslv, op, iss, gh>>

\* a variant that leaves m_transferred as it was, as the primitives do when
\* they fail at once
resolve_failed_outcome_keeps_transferred(e) == [m_error |-> e, m_flags |-> 0]

\* the outcome recorded when resolution failed with error e
resolve_failed_outcome(e) == [m_error |-> e, m_transferred |-> 0, m_flags |-> 0]

\* the head of the list result() holds; 0 is the null pointer
result_get == IF rslv.m_result = <<>> THEN 0 ELSE 1
ai_next(k) == IF k < Len(rslv.m_result) THEN k + 1 ELSE 0

\* case on_resolve: a failed resolution is the final outcome; else the loop starts
RC_OnResolve ==
  /\ Running("rc_step", "on_resolve")
  /\ IF has_error("resolve_ctx")
       THEN /\ ctx' = [ctx EXCEPT !["m_connect_ctx"] =
                         Upd(@, resolve_failed_outcome(ctx["resolve_ctx"].m_error))]
            /\ stack' = Goto("notify")
            /\ gh' = [gh EXCEPT !.final = Min(@ + 1, 2)]
            /\ rc' = rc
       ELSE /\ rc' = [rc EXCEPT !.iter = result_get]
            /\ stack' = Goto("loop_test")
            /\ UNCHANGED <<ctx, gh>>
  /\ UNCHANGED <<queue, os, socks, rm, rslv, op, iss>>

\* the test of the for loop: with iter null, step() falls out of the switch
RC_LoopTest ==
  /\ Running("rc_step", "loop_test")
  /\ stack' = IF rc.iter = 0 THEN Tail(stack) ELSE Goto("loop_body")
  /\ UNCHANGED <<queue, ctx, os, socks, rm, rslv, rc, op, iss, gh>>

\* what ConnectEx answers for candidate k
ConnectOutcomes(k, len) ==
  {r \in OsOutcomes("connect_and_send", len, TRUE) :
     \/ r.k = "pending"
     \/ r.k = "ok" /\ rslv.m_result[k] = "up"
     \/ r.k \in {"fail", "noext"} /\ rslv.m_result[k] = "down"}

\* a variant of close that forgets the handle without closing the socket
socket_close_leaks == socks

\* socket::close on the caller's handle: closesocket when it holds a socket
socket_close == [socks EXCEPT !.open = @ \ {op.m_sock}]

\* *sock = socket{...}: the new socket is made, the handle closes what it held
socket_assign(s) == [socks EXCEPT !.open = (@ \ {op.m_sock}) \cup {s}, !.next = s + 1]

\* the body of the for loop up to the connect: socket::socket and socket::bind
\* throw when the OS refuses; then state = on_connect and connect_and_send is
\* issued on connect_ctx; pending: sync = false, return
RC_LoopBody ==
  /\ Running("rc_step", "loop_body")
  /\ \E made \in BOOLEAN, bound \in BOOLEAN :
       LET s == socks.next IN
       IF ~made
         THEN /\ stack' = Unwind
              /\ gh' = Raise(gh, "socket")
              /\ UNCHANGED <<queue, ctx, os, socks, rc, op, iss>>
         ELSE IF ~bound
           THEN /\ socks' = socket_assign(s)
                /\ op' = [op EXCEPT !.m_sock = s]
                /\ stack' = Unwind
                /\ gh' = Raise(Logged(gh, <<Ev("socket", rc.iter)>>), "bind")
                /\ UNCHANGED <<queue, ctx, os, rc, iss>>
           ELSE \E r \in ConnectOutcomes(rc.iter, op.m_sendleft) :
                  /\ socks' = socket_assign(s)
                  /\ op' = [op EXCEPT !.m_sock = s]
                  /\ rc' = [rc EXCEPT !.state = "on_connect",
                                      !.sync = IF r.k = "pending" THEN FALSE ELSE @]
                  /\ IssuePrimitive("connect_ctx", "connect_and_send", s, rc.iter, op.m_sendleft, r)
                  /\ stack' = IF r.k = "pending" THEN Tail(stack) ELSE Goto("on_connect")
                  /\ gh' = [Logged(gh, <<Ev("socket", rc.iter), Ev("bind", rc.iter), Ev("connect", rc.iter)>>)
                              EXCEPT !.susp["connect_ctx"] = "on_connect",
                                     !.pended = @ \/ r.k = "pending",
                                     !.conn = IF r.k = "pending" THEN @
                                              ELSE [err |-> r.err, bytes |-> r.bytes, flags |-> r.flags]]
  /\ UNCHANGED <<rm, rslv>>

\* the outcome recorded when the connect to the last candidate failed
connect_failed_outcome(cc) ==
  [m_error |-> cc.m_error, m_transferred |-> cc.m_transferred, m_flags |-> cc.m_flags]

\* the outcome recorded when a connect succeeded
connect_succeeded_outcome(cc) ==
  [m_error |-> ERROR_SUCCESS, m_transferred |-> cc.m_transferred, m_flags |-> cc.m_flags]

\* case on_connect: a failed connect closes the socket and moves on, or is the
\* final outcome after the last candidate; a successful one is the final outcome
RC_OnConnect ==
  /\ Running("rc_step", "on_connect")
  /\ LET cc == ctx["connect_ctx"] IN
     IF has_error("connect_ctx")
       THEN /\ socks' = socket_close
            /\ op' = [op EXCEPT !.m_sock = INVALID_SOCKET]
            /\ IF ai_next(rc.iter) = 0
                 THEN /\ ctx' = [ctx EXCEPT !["m_connect_ctx"] = Upd(@, connect_failed_outcome(cc))]
                      /\ stack' = Goto("notify")
                      /\ gh' = [Logged(gh, <<Ev("close", rc.iter)>>) EXCEPT !.final = Min(@ + 1, 2)]
                      /\ rc' = rc
                 ELSE /\ rc' = [rc EXCEPT !.iter = ai_next(@)]
                      /\ stack' = Goto("loop_test")
                      /\ gh' = Logged(gh, <<Ev("close", rc.iter)>>)
                      /\ ctx' = ctx
       ELSE /\ ctx' = [ctx EXCEPT !["m_connect_ctx"] = Upd(@, connect_succeeded_outcome(cc))]
            /\ stack' = Goto("notify")
            /\ gh' = [gh EXCEPT !.final = Min(@ + 1, 2)]
            /\ UNCHANGED <<socks, op, rc>>
  /\ UNCHANGED <<queue, os, rm, rslv, iss>>

\* if (!sync) this->completion_func(); return;
RC_Notify ==
  /\ Running("rc_step", "notify")
  /\ IF rc.sync
       THEN /\ stack' = Tail(stack)
            /\ UNCHANGED <<ctx, os, iss, socks, gh>>
       ELSE completion_func("m_connect_ctx", Goto("ret"), TRUE, gh)
  /\ UNCHANGED <<queue, rm, rslv, rc, op>>

\* the return that follows the hook
RC_Return ==
  /\ Running("rc_step", "ret")
  /\ stack' = Tail(stack)
  /\ UNCHANGED <<queue, ctx, os, socks, rm, rslv, rc, op, iss, gh>>

\* ------------------------------------------------------- http_op::step
\* case on_start: m_state = on_connect; io::connect_and_send sets up the
\* context (state = on_start, sync = true) and calls its step()
H_OnStart ==
  /\ Running("http_step", "on_start")
  /\ op' = [op EXCEPT !.m_state = "on_connect"]
  /\ rc' = [rc EXCEPT !.state = "on_start", !.sync = TRUE]
  /\ stack' = <<Frame("rc_step", "on_start", "m_connect_ctx")>> \o Goto("connect_ret")
  /\ gh' = [gh EXCEPT !.susp["m_connect_ctx"] = "on_connect"]
  /\ UNCHANGED <<queue, ctx, os, socks, rm, rslv, iss>>

\* io::connect_and_send returns ctx.sync; on false step() returns
H_ConnectRet ==
  /\ Running("http_step", "connect_ret")
  /\ iss' = [iss EXCEPT !["m_connect_ctx"].ret = IF rc.sync THEN "true" ELSE "false"]
  /\ stack' = IF rc.sync THEN Goto("on_connect") ELSE Tail(stack)
  /\ UNCHANGED <<queue, ctx, os, socks, rm, rslv, rc, op, gh>>

\* case on_connect: check_error(), then the bytes sent with the connect are
\* taken off m_sendleft
H_OnConnect ==
  /\ Running("http_step", "on_connect")
  /\ \E e \in Rd(ctx["m_connect_ctx"].m_error, {ERROR_SUCCESS} \cup ErrCodes) :
     \E t \in Rd(ctx["m_connect_ctx"].m_transferred, 0..op.m_sendleft) :
       IF e # ERROR_SUCCESS
         THEN /\ stack' = Unwind
              /\ gh' = Raise(gh, "check_error")
              /\ op' = op
         ELSE /\ op' = [op EXCEPT !.m_sendleft = @ - t]
              /\ stack' = Goto("send_loop")
              /\ gh' = gh
  /\ UNCHANGED <<queue, ctx, os, socks, rm, rslv, rc, iss>>

\* whether m_sock holds an open socket
sock_valid == op.m_sock \in socks.open

\* op_context::check_error on context c throws
check_error_throws(c) == ctx[c].m_error # ERROR_SUCCESS

\* a variant of the tag assignment that stores nothing
keep_resume_tag(tag) == op

\* m_state = <tag>;
set_resume_tag(tag) == [op EXCEPT !.m_state = tag]

\* a primitive issued on m_ctx from step(): the resume tag is stored first;
\* false returns from step(), true goes on at the tag
H_Issue(prim, len, tag) ==
  /\ op' = set_resume_tag(tag)
  /\ \E r \in OsOutcomes(prim, len, sock_valid) :
       /\ IssuePrimitive("m_ctx", prim, op.m_sock, 0, len, r)
       /\ stack' = IF PrimReturns(r) THEN Goto(tag) ELSE Tail(stack)
       /\ gh' = [gh EXCEPT !.susp["m_ctx"] = tag,
                           !.recvAfterEos = @ \/ (prim = "receive" /\ gh.eos # "none"),
                           !.eos = IF r.k = "ok" /\ EndOfStream(prim, r.err, r.bytes)
                                     THEN "sync" ELSE @]
  /\ UNCHANGED <<socks, rm, rslv, rc>>

\* socket::shutdown(how) throws when the OS refuses; it refuses an invalid handle
H_Shutdown(next) ==
  /\ \E ok \in (IF sock_valid THEN BOOLEAN ELSE {FALSE}) :
       IF ok
         THEN stack' = Goto(next) /\ gh' = gh
         ELSE stack' = Unwind /\ gh' = Raise(gh, "shutdown")
  /\ UNCHANGED <<queue, ctx, os, socks, rm, rslv, rc, op, iss>>

\* while (m_sendleft): m_state = on_send; send
H_Send ==
  /\ Running("http_step", "send_loop")
  /\ op.m_sendleft # 0
  /\ H_Issue("send", op.m_sendleft, "on_send")

\* after the loop: m_sock.shutdown(SD_SEND)
H_ShutdownSend ==
  /\ Running("http_step", "send_loop")
  /\ op.m_sendleft = 0
  /\ H_Shutdown("recv_loop")

\* case on_send: check_error(); m_sendleft -= transferred
H_OnSend ==
  /\ Running("http_step", "on_send")
  /\ IF check_error_throws("m_ctx")
       THEN /\ stack' = Unwind
            /\ gh' = Raise(gh, "check_error")
            /\ op' = op
       ELSE /\ op' = [op EXCEPT !.m_sendleft = @ - ctx["m_ctx"].m_transferred]
            /\ stack' = Goto("send_loop")
            /\ gh' = gh
  /\ UNCHANGED <<queue, ctx, os, socks, rm, rslv, rc, iss>>

\* do: m_state = on_receive; receive
H_Receive ==
  /\ Running("http_step", "recv_loop")
  /\ H_Issue("receive", MaxBytes, "on_receive")

\* a variant of the loop condition that never ends the loop
receive_loop_continues_always == TRUE

\* while (m_ctx.transferred())
receive_loop_continues == ctx["m_ctx"].m_transferred # 0

\* case on_receive: check_error(); while (transferred)
H_OnReceive ==
  /\ Running("http_step", "on_receive")
  /\ IF check_error_throws("m_ctx")
       THEN stack' = Unwind /\ gh' = Raise(gh, "check_error")
       ELSE /\ stack' = Goto(IF receive_loop_continues THEN "recv_loop" ELSE "shutdown_receive")
            /\ gh' = gh
  /\ UNCHANGED <<queue, ctx, os, socks, rm, rslv, rc, op, iss>>

\* m_sock.shutdown(SD_RECEIVE)
H_ShutdownReceive ==
  /\ Running("http_step", "shutdown_receive")
  /\ H_Shutdown("disconnect")

\* m_state = on_disconnect; disconnect
H_Disconnect ==
  /\ Running("http_step", "disconnect")
  /\ H_Issue("disconnect", 0, "on_disconnect")

\* case on_disconnect: check_error(); m_sock.close(); m_svc.shutdown()
H_OnDisconnect ==
  /\ Running("http_step", "on_disconnect")
  /\ IF check_error_throws("m_ctx")
       THEN /\ stack' = Unwind
            /\ gh' = Raise(gh, "check_error")
            /\ UNCHANGED <<queue, socks, op>>
       ELSE /\ socks' = socket_close
            /\ op' = [op EXCEPT !.m_sock = INVALID_SOCKET]
            /\ queue' = service_shutdown
            /\ gh' = [gh EXCEPT !.posted = Min(@ + 1, MaxShutdown)]
            /\ stack' = Tail(stack)
  /\ UNCHANGED <<ctx, os, rm, rslv, rc, iss>>

\* ---------------------------------------------------------------- main
\* http_op op{...}; op.step();
MainStep ==
  /\ Running("main", "start")
  /\ stack' = <<Frame("http_step", op.m_state, "")>> \o Goto("loop")
  /\ UNCHANGED <<queue, ctx, os, socks, rm, rslv, rc, op, iss, gh>>

\* while (svc.run_many())
MainRunMany ==
  /\ Running("main", "loop")
  /\ stack' = <<Frame("run_many", "wait", "")>> \o Goto("loop_ret")
  /\ UNCHANGED <<queue, ctx, os, socks, rm, rslv, rc, op, iss, gh>>

MainLoopTest ==
  /\ Running("main", "loop_ret")
  /\ stack' = Goto(IF Top.ret THEN "loop" ELSE "done")
  /\ UNCHANGED <<queue, ctx, os, socks, rm, rslv, rc, op, iss, gh>>

Init ==
  /\ InitCommon
  /\ socks = [open |-> {}, next |-> INVALID_SOCKET + 1, updated |-> {}]
  /\ stack = <<Frame("main", "start", "")>>

Next ==
  \/ MainStep
  \/ MainRunMany
  \/ MainLoopTest
  \/ H_OnStart
  \/ H_ConnectRet
  \/ H_OnConnect
  \/ H_Send
  \/ H_ShutdownSend
  \/ H_OnSend
  \/ H_Receive
  \/ H_OnReceive
  \/ H_ShutdownReceive
  \/ H_Disconnect
  \/ H_OnDisconnect
  \/ RC_OnStart
  \/ RC_ResolvePending
  \/ RC_OnResolve
  \/ RC_LoopTest
  \/ RC_LoopBody
  \/ RC_OnConnect
  \/ RC_Notify
  \/ RC_Return
  \/ LookupStart
  \/ LookupCompletion
  \/ \E c \in {"connect_ctx", "m_ctx"} : OsComplete(c)
  \/ service_run_many_wait
  \/ service_run_many_iter
  \/ service_run_many_return

Spec == Init /\ [][Next]_vars

\* ====================================================== the claims
\* the contexts of the non-shutdown entries of a batch, in queue order
RECURSIVE RunEntries(_)
RunEntries(batch) ==
  IF batch = <<>> THEN <<>>
  ELSE IF Head(batch).key = KEY_RUN
         THEN <<Head(batch).ov>> \o RunEntries(Tail(batch))
         ELSE RunEntries(Tail(batch))

IsPrefix(a, b) == Len(a) <= Len(b) /\ a = SubSeq(b, 1, Len(a))

\* the compound operation has handed control back to its owner as finished
HandedBack == iss["m_connect_ctx"].ret = "true" \/ iss["m_connect_ctx"].hooks >= 1

\* nothing of the compound operation is running, pending or queued, and its
\* call is not about to return
CompoundAtRest ==
  /\ os["resolve_ctx"].st = "idle"
  /\ os["connect_ctx"].st = "idle"
  /\ \A i \in DOMAIN stack : stack[i].fn # "rc_step" /\ stack[i].pc # "connect_ret"

\* the outcome members of the compound operation's context
Outcome == [f \in OutcomeFields |-> ctx["m_connect_ctx"][f]]
OutcomeOf(e, t, f) == [m_error |-> e, m_transferred |-> t, m_flags |-> f]

\* what the loop does for candidates k..n when all but the n-th fail when
\* closeLast is false, and all fail when it is true
RECURSIVE Attempts(_, _, _)
Attempts(k, n, closeLast) ==
  IF k > n THEN <<>>
  ELSE <<Ev("socket", k), Ev("bind", k), Ev("connect", k)>>
       \o (IF k < n \/ closeLast THEN <<Ev("close", k)>> ELSE <<>>)
       \o Attempts(k + 1, n, closeLast)

LastSucceeds(l) == l # <<>> /\ l[Len(l)] = "up" /\ \A i \in 1..(Len(l) - 1) : l[i] = "down"
AllFail(l) == l # <<>> /\ \A i \in DOMAIN l : l[i] = "down"

\* C1: for every socket primitive issued on a context exactly one of two
\* outcomes holds: it returned true, the call wrote the error, transferred and
\* flags members and no completion hook is dispatched for the issue; or it
\* returned false, the call did not write the error member, and the hook is
\* dispatched once (not before, never twice) and writes the outcome.
C1_SyncXorHook ==
  \A c \in HostCtx :
    /\ iss[c].ret = "true" =>
         /\ OutcomeFields \subseteq iss[c].wr
         /\ iss[c].hooks = 0
         /\ os[c].st = "idle"
    /\ iss[c].ret = "false" =>
         /\ "m_error" \notin iss[c].wr
         /\ iss[c].hooks <= 1
         /\ (iss[c].hooks = 1) => (iss[c].hookwr = OutcomeFields)
         /\ (iss[c].hooks = 0) = (os[c].st # "idle")

\* C2: io::connect_and_send returns true exactly when neither the resolution
\* nor a connect returned pending, and then the hook of ctx is never invoked;
\* when it returned false the hook is invoked once, not before the final
\* outcome is recorded, and it has been invoked by the time nothing of the
\* operation is running, pending or queued any more.
C2_CompoundReturn ==
  LET m == iss["m_connect_ctx"] IN
  /\ m.ret = "true" => ~gh.pended /\ m.hooks = 0
  /\ m.ret = "false" => gh.pended
  /\ m.hooks <= 1
  /\ m.hooks <= gh.final
  /\ m.ret = "false" /\ CompoundAtRest => m.hooks = 1

\* C3: each dispatch of a bound context's completion hook invokes the owner's
\* step() exactly once, entered at the resume tag stored before the primitive
\* that suspended.
C3_HookResumesAtTag ==
  gh.hk.c # "" => gh.hk.steps = 1 /\ gh.hk.tag = gh.hk.susp

\* C4: in a bound context's hook the base bookkeeping (the outcome members,
\* and for a connect context the fixup) is done when step() starts, and step()
\* is invoked whatever the bookkeeping gave: success, error or failing fixup.
C4_StepUnconditional ==
  gh.hk.c # "" =>
    /\ gh.hk.base \in {"none", "success", "error", "fixup_failed"}
    /\ gh.hk.base # "none" => gh.hk.wrote = OutcomeFields
    /\ gh.hk.base = "success" /\ IsConnect(gh.hk.c) => gh.hk.fixed
    /\ gh.hk.steps = 1

\* C5: for a resolved list whose candidates all fail but the last, which
\* succeeds: the candidates are attempted in list order, each failed socket is
\* closed before the next is created, and the operation ends by handing its
\* owner the outcome success with the last connect's transferred bytes and flags.
C5_LastCandidateSucceeds ==
  LET l == gh.res.list IN
  gh.res.err = ERROR_SUCCESS /\ LastSucceeds(l) =>
    /\ IsPrefix(gh.log, Attempts(1, Len(l), FALSE))
    /\ CompoundAtRest => HandedBack
    /\ HandedBack =>
         /\ gh.log = Attempts(1, Len(l), FALSE)
         /\ Outcome = OutcomeOf(ERROR_SUCCESS, gh.conn.bytes, gh.conn.flags)

\* C6: for a resolved list whose candidates all fail: every candidate is
\* attempted exactly once, in order, and the operation ends by handing its
\* owner an outcome with the error code, transferred bytes and flags of the
\* connect to the last one.
C6_AllCandidatesFail ==
  LET l == gh.res.list IN
  gh.res.err = ERROR_SUCCESS /\ AllFail(l) =>
    /\ IsPrefix(gh.log, Attempts(1, Len(l), TRUE))
    /\ CompoundAtRest => HandedBack
    /\ HandedBack =>
         /\ gh.log = Attempts(1, Len(l), TRUE)
         /\ Outcome = OutcomeOf(gh.conn.err, gh.conn.bytes, gh.conn.flags)

\* C7: when name resolution completes with an error, at once or through the
\* service: no socket is created, no bind or connect is issued, the caller's
\* socket handle stays as it was, and the operation ends by handing its owner
\* the resolution's error code with transferred = 0 and flags = 0.
C7_ResolveError ==
  gh.res.err # ERROR_SUCCESS =>
    /\ gh.log = <<>>
    /\ socks.open = {} /\ socks.next = INVALID_SOCKET + 1
    /\ op.m_sock = INVALID_SOCKET
    /\ iss["connect_ctx"].ret = "none"
    /\ gh.final >= 1 => Outcome = OutcomeOf(gh.res.err, 0, 0)
    /\ HandedBack => gh.final = 1
    /\ CompoundAtRest => HandedBack

\* C7 witness: a lookup that was pending failed, and the owner was resumed
\* through the hook with the outcome recorded.
C7_Witness ==
  /\ gh.res.err # ERROR_SUCCESS
  /\ gh.res.how = "async"
  /\ iss["m_connect_ctx"].hooks = 1
  /\ gh.final = 1

\* C8: the operation ends in failure only when resolution failed or every
\* candidate was attempted and failed: no failure of one candidate (making its
\* socket, binding it, connecting it) ends the operation, as an outcome or as
\* an exception reaching the caller, while untried candidates remain.
C8_OnlyExhaustionFails ==
  LET failed == \/ gh.raised \in {"socket", "bind", "fixup"}
                \/ gh.final >= 1 /\ ctx["m_connect_ctx"].m_error # ERROR_SUCCESS
  IN  failed => gh.res.err # ERROR_SUCCESS \/ (rc.iter # 0 /\ ai_next(rc.iter) = 0)

\* C9: no completion hook is ever invoked for a shutdown entry, and once a
\* drain call has ended, false has been returned exactly once for each
\* shutdown signal dequeued so far.
C9_FalseOncePerSignal ==
  /\ gh.nullHooks = 0
  /\ gh.call.ret \in {"true", "false", "raised"} => gh.falseRets = gh.dequeued

\* C10: one call of run_many() dequeues at most 16 entries, invokes the hook of
\* every non-shutdown entry of the batch once and in queue order, also of those
\* before and after a shutdown entry, and returns false exactly when the batch
\* held a shutdown entry.
C10_BatchDispatch ==
  gh.call.fn = "run_many" =>
    /\ Len(gh.call.batch) <= BatchSize
    /\ IsPrefix(gh.call.disp, RunEntries(gh.call.batch))
    /\ gh.call.ret # "running" =>
         /\ gh.call.disp = RunEntries(gh.call.batch)
         /\ (gh.call.ret = "false") = (ShutdownsIn(gh.call.batch) >= 1)

\* C11: one call of run() consumes exactly one queue entry; for the shutdown
\* entry it returns false and invokes no hook; for any other entry it invokes
\* that entry's hook once and returns true; it returns false in no other case.
C11_RunOneEntry ==
  gh.call.fn = "run" =>
    /\ Len(gh.call.batch) = 1
    /\ LET e == gh.call.batch[1] IN
       IF e.key = KEY_SHUTDOWN
         THEN gh.call.ret = "false" /\ gh.call.disp = <<>>
         ELSE /\ gh.call.disp = <<e.ov>>
              /\ gh.call.ret # "running" => gh.call.ret = "true"

\* C12: no completion hook of the core raises: when a drain call ends by an
\* exception, the exception is the one the owner's own code raised through
\* check_error() (or its own socket::shutdown call), never one raised by
\* connect_context's hook or by the resolve-and-connect step run from a hook.
C12_NoCoreHookRaises ==
  gh.call.ret = "raised" => gh.raised \in {"check_error", "shutdown"}

\* C13: once a receive of the read loop has completed with transferred = 0
\* and no error (at once or through the service), no further receive is issued
\* and the operation is at the loop's test, at shutdown-receive or at the
\* disconnect, or has left step().
C13_EndOfStreamEndsLoop ==
  gh.eos # "none" =>
    /\ ~gh.recvAfterEos
    /\ op.m_state \in {"on_receive", "on_disconnect"}
    /\ \A i \in DOMAIN stack :
         stack[i].fn = "http_step" =>
           stack[i].pc \in {"on_receive", "shutdown_receive", "disconnect", "on_disconnect"}

\* C13 witness: end-of-stream was delivered through the service and the
\* operation went on to issue the disconnect.
C13_Witness ==
  /\ gh.eos = "hook"
  /\ op.m_state = "on_disconnect"
  /\ iss["m_ctx"].ret \in {"true", "false"}
  /\ ~gh.recvAfterEos

\* C14: whenever the compound operation has handed control back to its owner
\* as finished, it has recorded a final outcome: its error, transferred and
\* flags members have all been written.
C14_OutcomeWritten ==
  HandedBack =>
    /\ gh.final >= 1
    /\ \A f \in OutcomeFields : ctx["m_connect_ctx"][f] # Indet

\* C15: when name resolution has completed with success, at once or through
\* the service, result() holds the list that resolution produced.
C15_ResultHoldsList ==
  gh.res.how # "none" /\ gh.res.err = ERROR_SUCCESS => rslv.m_result = gh.res.list

\* no invocation of the owner's step() is running, those that only have to
\* return (at retpc) aside
StepNotRunning(fn, retpc) ==
  \A i \in DOMAIN stack : stack[i].fn = fn => stack[i].pc = retpc

\* the running action issues a primitive on m_ctx
LeafIssue == H_Send \/ H_Receive \/ H_Disconnect

\* C16, between invocations: while a primitive that returned false is
\* outstanding, the owner's resume tag is the label that follows the primitive,
\* its step() is not running, and its progress members (candidate iterator,
\* socket) are as they were when the primitive was issued.
C16_Suspended ==
  /\ os["m_ctx"].st # "idle" =>
       /\ op.m_state = gh.susp["m_ctx"]
       /\ ctx["m_ctx"].m_sock = op.m_sock
       /\ StepNotRunning("http_step", "") /\ StepNotRunning("rc_step", "ret")
  /\ os["connect_ctx"].st # "idle" =>
       /\ rc.state = "on_connect" /\ rc.state = gh.susp["connect_ctx"]
       /\ rc.iter = os["connect_ctx"].cand
       /\ ctx["connect_ctx"].m_sock = op.m_sock
       /\ \A i \in DOMAIN stack : stack[i].fn # "rc_step"
  /\ os["resolve_ctx"].st # "idle" =>
       /\ rc.state = "on_resolve" /\ rc.state = gh.susp["resolve_ctx"]
       /\ StepNotRunning("rc_step", "resolve_pending")
  /\ (\E i \in DOMAIN stack : stack[i].pc = "connect_ret") =>
       /\ op.m_state = "on_connect"
       /\ rc.sync => \A i \in DOMAIN stack : stack[i].fn # "run_many"
  /\ os["resolve_ctx"].st # "idle" \/ os["connect_ctx"].st # "idle" =>
       op.m_state = "on_connect" /\ StepNotRunning("http_step", "connect_ret")

\* C16, within an invocation: the step that issues a primitive has stored the
\* label following it as the resume tag; on true the same frame goes on at that
\* label with nothing dispatched; on false the frame returns.
C16_IssueStep ==
  /\ LeafIssue =>
       /\ op'.m_state = gh'.susp["m_ctx"]
       /\ IF iss'["m_ctx"].ret = "true"
            THEN stack' = Goto(op'.m_state) /\ gh'.call.disp = gh.call.disp
            ELSE stack' = Tail(stack) /\ os'["m_ctx"].st = "pending"
  /\ RC_OnStart =>
       /\ rc'.state = "on_resolve"
       /\ IF iss'["resolve_ctx"].ret = "true"
            THEN stack' = Goto(rc'.state) /\ gh'.call.disp = gh.call.disp
            ELSE stack' = Goto("resolve_pending") /\ os'["resolve_ctx"].st = "pending"
  /\ RC_ResolvePending =>
       stack' = Tail(stack) /\ rc'.state = rc.state /\ rc'.iter = rc.iter /\ op' = op
  /\ RC_LoopBody /\ iss'["connect_ctx"] # iss["connect_ctx"] =>
       /\ rc'.state = "on_connect"
       /\ IF iss'["connect_ctx"].ret = "true"
            THEN stack' = Goto(rc'.state) /\ gh'.call.disp = gh.call.disp
            ELSE stack' = Tail(stack) /\ os'["connect_ctx"].st = "pending"
  /\ H_ConnectRet =>
       IF rc.sync THEN stack' = Goto(op.m_state) ELSE stack' = Tail(stack)

\* C16: in every invocation of step() the resume tag is set to the label
\* following the primitive before the primitive is issued; a primitive that
\* returns true continues at that label in the same invocation with no
\* dispatch in between; one that returns false ends the invocation at once,
\* with no further primitive and no change of a progress member afterwards.
C16_ResumeDiscipline == []C16_Suspended /\ [][C16_IssueStep]_vars

\* C16 witness: the resolution was suspended and resumed, and the connect
\* then returned true and step() went on at on_connect in the same invocation.
C16_Witness ==
  /\ gh.res.how = "async"
  /\ iss["connect_ctx"].ret = "true"
  /\ Running("rc_step", "on_connect")
  /\ rc.state = "on_connect"

\* C17: at most one asynchronous operation is outstanding over the contexts
\* of http_op and its Resolve-and-Connect at any time, and no primitive is ever
\* issued on a context whose previous primitive is still outstanding.
C17_OneOutstanding ==
  /\ Cardinality({c \in MainCtx : os[c].st # "idle"}) <= 1
  /\ \A c \in MainCtx : ~iss[c].busy

\* C17 witness: a connect is outstanding after the resolution was outstanding
\* and completed.
C17_Witness ==
  /\ os["connect_ctx"].st = "pending"
  /\ iss["resolve_ctx"].ret = "false"
  /\ iss["resolve_ctx"].hooks = 1

\* C18: once io::connect_and_send has returned false and nothing of the
\* operation is running, pending or queued any more, the operation has
\* recorded a final outcome and invoked its completion hook: no step()
\* invocation ends with no child pending and no final outcome delivered.
C18_NeverStranded ==
  iss["m_connect_ctx"].ret = "false" /\ CompoundAtRest =>
    /\ gh.final >= 1
    /\ iss["m_connect_ctx"].hooks >= 1

\* C19: when the operation has recorded the outcome success of a connect and
\* handed it to its owner, the connected socket has had
\* SO_UPDATE_CONNECT_CONTEXT applied.
C19_FixupOnEverySuccess ==
  /\ gh.final >= 1
  /\ HandedBack
  /\ op.m_state = "on_connect"
  /\ ctx["m_connect_ctx"].m_error = ERROR_SUCCESS
  => op.m_sock \in socks.updated

\* C20: every open socket made by the operation is the one the caller's
\* handle holds, so the handle owns at most one; and once the final outcome is
\* recorded after a connect attempt (and until the owner closes the socket
\* itself), the handle holds an open socket exactly when the outcome is success.
C20_HandleOwnsOneSocket ==
  /\ socks.open \subseteq {op.m_sock}
  /\ Cardinality(socks.open) <= 1
  /\ gh.final >= 1 /\ gh.log # <<>> /\ op.m_state = "on_connect" =>
       (sock_valid <=> ctx["m_connect_ctx"].m_error = ERROR_SUCCESS)

\* C20 witness: the first candidate failed and its socket was closed, the
\* second succeeded, and the final outcome is recorded with the handle holding
\* the second socket.
C20_Witness ==
  /\ gh.final >= 1
  /\ Len(gh.log) > 4
  /\ op.m_state = "on_connect"
  /\ sock_valid
  /\ ctx["m_connect_ctx"].m_error = ERROR_SUCCESS

\* C21: no entry dequeued by run_many() is lost: when a completion hook has
\* raised out of run_many(), every entry of the batch that follows the raising
\* one (a real completion or a shutdown entry) is still in the queue, where a
\* later drain call finds it.
C21_NoEntryLost ==
  gh.call.fn = "run_many" /\ gh.call.ret = "raised" =>
    \A j \in rm.i..Len(rm.entries) :
      \E k \in DOMAIN queue : queue[k] = rm.entries[j]

\* C22: with the resolver's callback on a thread of its own: when the resolve
\* context is in the port's queue the callback has finished and has written
\* the error code and, on success, the list; the issuing thread wrote nothing
\* to the context of a lookup accepted as pending; the step resumed by the
\* resolve hook sees sync = false and the complete outcome; and no two
\* invocations of the operation's step() exist at once.
C22_ResolverHandOff ==
  LET written == /\ rslv.cb = 0
                 /\ ctx["resolve_ctx"].m_error = rslv.error
                 /\ rslv.error = ERROR_SUCCESS => rslv.m_result = rslv.list
  IN
  /\ os["resolve_ctx"].st = "queued" => written
  /\ \A i \in DOMAIN stack :
       stack[i].fn = "rc_step" /\ stack[i].c = "resolve_ctx" => written /\ ~rc.sync
  /\ Cardinality({i \in DOMAIN stack : stack[i].fn = "rc_step"}) <= 1
  /\ iss["resolve_ctx"].ret = "false" => iss["resolve_ctx"].wr = {}
  /\ os["resolve_ctx"].st # "idle" /\ (\A i \in DOMAIN stack : stack[i].fn # "rc_step") => ~rc.sync

\* C22 witness: the callback has run to its end and posted the completion
\* while the issuing thread is still inside step(), before sync = false.
C22_Witness ==
  /\ Running("rc_step", "resolve_pending")
  /\ os["resolve_ctx"].st = "queued"
  /\ rslv.cb = 0
  /\ rc.sync

\* main() waits in run_many() with nothing in the queue, no operation
\* outstanding and no resolver callback running: nothing will ever wake it
Stuck ==
  /\ Running("run_many", "wait")
  /\ queue = <<>>
  /\ \A c \in MainCtx : os[c].st = "idle"
  /\ rslv.cb = 0

\* C23: the demonstration run terminates: shutdown is posted at most once and
\* only after the disconnect completed without error and the socket was
\* closed; the loop in main exits normally only after shutdown was posted; a
\* raised error leaves the loop with shutdown never posted; and main never
\* waits in run_many() with every issued operation completed and nothing left
\* to be dispatched.
C23_DemoTerminates ==
  /\ gh.posted <= 1
  /\ gh.posted = 1 =>
       /\ op.m_state = "on_disconnect"
       /\ ctx["m_ctx"].m_error = ERROR_SUCCESS
       /\ op.m_sock = INVALID_SOCKET /\ socks.open = {}
       /\ gh.raised = ""
  /\ Running("main", "done") => gh.posted = 1
  /\ gh.raised # "" => gh.posted = 0 /\ Running("main", "caught")
  /\ ~Stuck
====
